---- MODULE Spec2Model ----
(***************************************************************************)
(* Model of the streaming output reconciliation of ProtAlignMovies         *)
(* (pyworkflow/em/protocol/protocol_align_movies.py, _checkNewOutput and   *)
(* _loadOutputSet): the done list, the two output sets (movies and         *)
(* micrographs), their stream state and the first join step                *)
(* (createOutputStep).                                                     *)
(*                                                                         *)
(* One reconciliation pass is a sequence of steps, one per durable write,  *)
(* so that a process crash can fall between any two of them:               *)
(*   Discover  (lines 117-125)  read the done list, compute newDone        *)
(*   Commit    (lines 127-136)  write the done list, compute finished      *)
(*   MovieStep (lines 138-149)  load / append / update the movie set       *)
(*   MicStep   (lines 151-168)  load / append / update the micrograph set  *)
(*   GateStep  (lines 170-173)  unlock createOutputStep                    *)
(***************************************************************************)
EXTENDS Naturals, Integers, Sequences, FiniteSets, TLC

\* ------------------------------------------------------------------------
\* Bounds
\* ------------------------------------------------------------------------
\* largest number of movies the input set ever holds
MaxItems == 2
\* the recorded number of setStatus calls on the join step saturates here
MaxGateSets == 2
\* ProtUnionSet: largest number of input sets, largest size of an input
\* set, largest object id of an element
MaxSets == 2
MaxSetSize == 2
MaxObjId == 3
\* protocol_sets.py line 60: inputSets has minNumObjects=2
minNumObjects == 2
\* ProtSplitSet: largest value of the numberOfSets parameter
MaxNumberOfSets == 3
\* NodeConfigList: largest number of addNode calls, largest node id
MaxNodes == 4
MaxNodeId == 2

Ids == 1 .. MaxItems

\* Set.STREAM_OPEN / Set.STREAM_CLOSED, and "none" for a set file that does
\* not exist yet (os.path.exists(setFile) is false)
STREAM_NONE == "none"
STREAM_OPEN == "open"
STREAM_CLOSED == "closed"

\* step status constants of the first join step
STATUS_WAITING == "waiting"
STATUS_NEW == "new"
STATUS_RUNNING == "running"
STATUS_FINISHED == "finished"

NO_ERROR == "none"
ClosedCollectionError == "ClosedCollectionError"
TransientIOError == "TransientIOError"
TransformError == "TransformError"

VARIABLES
    \* --- the producer: the input set of movies and the per-movie done files
    inputMovies,     \* sequence of ids in the input set (inputMovies.get())
    inputClosed,     \* stream state of the input set is CLOSED
    ready,           \* ids whose movie-done file exists (_isMovieDone)
    \* --- protocol parameters
    doSaveAveMic,    \* the micrograph set is written
    \* --- persisted state of the stage
    doneFile,        \* the done list text file, a sequence of ids
    movieSet,        \* items of movies_*.sqlite, a sequence of ids
    movieState,      \* stream state of the movie set, or STREAM_NONE
    micSet,          \* items of micrographs.sqlite
    micState,        \* stream state of the micrograph set, or STREAM_NONE
    relations,       \* number of relations recorded per output name
    stepStatus,      \* status of the first join step (createOutputStep)
    \* --- in-memory state of the running process
    pc,              \* position inside _checkNewOutput
    finished,        \* self.finished (getattr(self, 'finished', False))
    listOfMovies,    \* self.listOfMovies
    streamClosed,    \* self.streamClosed
    doneList,        \* local doneList
    newDone,         \* local newDone
    firstTime,       \* local firstTime
    streamMode,      \* local streamMode
    error,           \* exception that ended the last pass, or NO_ERROR
    \* --- history
    aborted,         \* ids that were candidates of a pass that was killed
    gateSets,        \* number of setStatus calls made by _checkNewOutput
    hist,            \* what the passes read and found, see HistInit
    \* --- a second process that runs _checkNewOutput of the same protocol
    other,           \* its in-memory state, see OtherInit
    \* --- ProtUnionSet (protocol_sets.py)
    union,           \* a run of createOutputStep, see UnionIdle
    \* --- ProtSplitSet (protocol_sets.py)
    split,           \* a run of _validate and createOutputStep, see SplitIdle
    \* --- NodeConfigList (config.py)
    nodeList         \* the list, its _nodesDict and the nodes made so far

envVars == <<inputMovies, inputClosed, ready, doSaveAveMic>>
diskVars == <<doneFile, movieSet, movieState, micSet, micState, relations,
              stepStatus>>
memVars == <<pc, finished, listOfMovies, streamClosed, doneList, newDone,
             firstTime, streamMode, error>>
histVars == <<aborted, gateSets, hist>>
\* the protocols that do not run in streaming
staticVars == <<union, split, nodeList>>
vars == <<envVars, diskVars, memVars, histVars, other, staticVars>>

\* ------------------------------------------------------------------------
\* Helpers
\* ------------------------------------------------------------------------
Range(s) == {s[i] : i \in 1 .. Len(s)}

Count(s, x) == Cardinality({i \in 1 .. Len(s) : s[i] = x})

Min(a, b) == IF a < b THEN a ELSE b

\* s is the beginning of t
IsPrefix(s, t) == Len(s) <= Len(t) /\ SubSeq(t, 1, Len(s)) = s

\* what t holds after its first n elements
After(t, n) == SubSeq(t, n + 1, Len(t))

\* the output sets this protocol writes (lines 138 and 151)
OutputNames == {"outputMovies", "outputMicrographs"}

Owned == IF doSaveAveMic THEN OutputNames ELSE {"outputMovies"}

Items(name) == IF name = "outputMovies" THEN movieSet ELSE micSet

\* the object ids held by an output set
OutIds(name) == {Items(name)[i].objId : i \in 1 .. Len(Items(name))}

State(name) == IF name = "outputMovies" THEN movieState ELSE micState

\* ------------------------------------------------------------------------
\* Pure pieces of _checkNewOutput
\* ------------------------------------------------------------------------
\* ProtProcessMovies._readDoneList: the ids stored in the done file
_readDoneList(file) == file

\* ProtProcessMovies._writeDoneList: append the ids of the movies to the file
_writeDoneList(file, movies) == file \o movies

\* ProtProcessMovies._isMovieDone: the movie-done file exists
_isMovieDone(m, rdy) == m \in rdy

\* newDone without the test against the done list
newDoneNoFilter(movies, done, rdy) ==
    SelectSeq(movies, LAMBDA m : _isMovieDone(m, rdy))

\* newDone without the test of _isMovieDone
newDoneNoReady(movies, done, rdy) ==
    SelectSeq(movies, LAMBDA m : m \notin Range(done))

\* lines 124-125
newDoneOf(movies, done, rdy) ==
    SelectSeq(movies, LAMBDA m : m \notin Range(done) /\ _isMovieDone(m, rdy))

\* finished without the comparison of the counts
finishedNoCount(closed, allDone, nMovies) == closed

\* finished without the streamClosed conjunct
finishedNoClosed(closed, allDone, nMovies) == allDone = nMovies

\* line 135
finishedOf(closed, allDone, nMovies) == closed /\ allDone = nMovies

\* line 136
streamModeOf(fin) == IF fin THEN STREAM_CLOSED ELSE STREAM_OPEN

\* lines 170-173 without the call of setStatus
unlockNever(fin, status) == [status |-> status, called |-> FALSE]

\* lines 170-173 without the isWaiting test
unlockAlways(fin, status) ==
    IF fin
    THEN [status |-> STATUS_NEW, called |-> TRUE]
    ELSE [status |-> status, called |-> FALSE]

\* lines 170-173: the status of the join step after the pass, and whether
\* setStatus was called
unlockStep(fin, status) ==
    IF fin /\ status = STATUS_WAITING
    THEN [status |-> STATUS_NEW, called |-> TRUE]
    ELSE [status |-> status, called |-> FALSE]

\* lines 205-233: the output movie is a clone of the input movie, it keeps
\* the object id
_createOutputMovie(movie) == [objId |-> movie, cls |-> "Movie"]

\* the micrograph without mic.copyObjId(movie): it has no object id (0)
_createOutputMicNoId(movie) == [objId |-> 0, cls |-> "Micrograph"]

\* lines 155-162: mic = micSet.ITEM_TYPE(); mic.copyObjId(movie)
_createOutputMic(movie) == [objId |-> movie, cls |-> "Micrograph"]

\* the object ids of the items of a set, in order
IdsOf(items) == [i \in 1 .. Len(items) |-> items[i].objId]

\* _loadOutputSet that makes a new set whether the file exists or not
_loadOutputSetNew(items, state) ==
    [items |-> <<>>, state |-> STREAM_OPEN, err |-> NO_ERROR]

\* lines 96-108: the set as loaded in memory; an existing file is loaded and
\* opened for append, otherwise a new empty set is made with STREAM_OPEN
_loadOutputSet(items, state) ==
    IF state # STREAM_NONE
    THEN [items |-> items, state |-> STREAM_OPEN, err |-> NO_ERROR]
    ELSE [items |-> <<>>, state |-> STREAM_OPEN, err |-> NO_ERROR]

\* Set.append: refused on a set whose stream state is CLOSED
append(set, item) ==
    IF set.err # NO_ERROR THEN set
    ELSE IF set.state = STREAM_CLOSED
         THEN [set EXCEPT !.err = ClosedCollectionError]
         ELSE [set EXCEPT !.items = Append(@, item)]

RECURSIVE appendAll(_, _)
RECURSIVE appendAllReversed(_, _)
\* the for loops run over newDone from its last element to its first
appendAllReversed(set, items) ==
    IF items = <<>> THEN set
    ELSE append(appendAllReversed(set, Tail(items)), Head(items))

\* the for loops of lines 143-145 and 154-164, over the items made from
\* newDone
appendAll(set, items) ==
    IF items = <<>> THEN set
    ELSE appendAll(append(set, Head(items)), Tail(items))

\* Set.STREAM_* value stored by _updateOutputSet(outputName, set, state)
_updateOutputSet(set, state) == [set EXCEPT !.state = state]

\* _defineTransformRelation / _defineSourceRelation add one relation; the
\* recorded number is 0, 1, or 2 for more than one
defineRelation(rel, name) ==
    [rel EXCEPT ![name] = IF @ = 0 THEN 1 ELSE 2]

\* ------------------------------------------------------------------------
\* ProtUnionSet.createOutputStep (protocol_sets.py lines 75-114)
\* ------------------------------------------------------------------------
\* an object without id: cleanObjId() was called, the set that receives it
\* assigns its id
NoId == 0

ObjIds == 1 .. MaxObjId

\* an input set: its elements in order, as their object ids, all different;
\* it has a first element (_validate, line 129, reads it)
IdSeqs ==
    {q \in UNION {[1 .. n -> ObjIds] : n \in 1 .. MaxSetSize} :
        \A i, j \in 1 .. Len(q) : q[i] = q[j] => i = j}

\* the values of the inputSets parameter
InputSetLists == UNION {[1 .. n -> IdSeqs] : n \in minNumObjects .. MaxSets}

RECURSIVE Flatten(_)
\* lines 96-97: the elements in the order of the two nested loops
Flatten(sets) ==
    IF sets = <<>> THEN <<>> ELSE Head(sets) \o Flatten(Tail(sets))

RECURSIVE MaxOf(_)
\* max() of line 90
MaxOf(S) ==
    IF S = {} THEN 0
    ELSE LET x == CHOOSE y \in S : TRUE
             m == MaxOf(S \ {x})
         IN  IF x > m THEN x ELSE m

\* lines 78-94: the state of the loop before its first iteration
unionStart(sets, renum) ==
    [ usedIds    |-> {},
      cleanIds   |-> renum,
      firstObjId |-> IF renum THEN MaxOf(Range(Flatten(sets))) + 1 ELSE NoId,
      outputSet  |-> [items |-> <<>>, state |-> STREAM_OPEN,
                      err |-> NO_ERROR] ]

\* the loop body in which a duplicated id cleans that object only
unionObjNoSticky(st, objId) ==
    IF st.firstObjId # NoId
    THEN [st EXCEPT !.firstObjId = NoId,
                    !.outputSet = append(@, [objId |-> st.firstObjId])]
    ELSE IF st.cleanIds
    THEN [st EXCEPT !.outputSet = append(@, [objId |-> NoId])]
    ELSE IF objId \in st.usedIds
    THEN [st EXCEPT !.outputSet = append(@, [objId |-> NoId])]
    ELSE [st EXCEPT !.usedIds = @ \cup {objId},
                    !.outputSet = append(@, [objId |-> objId])]

\* lines 98-112: one iteration of the inner loop, for the object with objId
unionObj(st, objId) ==
    IF st.firstObjId # NoId
    THEN [st EXCEPT !.firstObjId = NoId,
                    !.outputSet = append(@, [objId |-> st.firstObjId])]
    ELSE IF st.cleanIds
    THEN [st EXCEPT !.outputSet = append(@, [objId |-> NoId])]
    ELSE IF objId \in st.usedIds
    THEN [st EXCEPT !.cleanIds = TRUE,
                    !.outputSet = append(@, [objId |-> NoId])]
    ELSE [st EXCEPT !.usedIds = @ \cup {objId},
                    !.outputSet = append(@, [objId |-> objId])]

RECURSIVE unionLoop(_, _)
\* lines 96-112
unionLoop(st, objs) ==
    IF objs = <<>> THEN st
    ELSE unionLoop(unionObj(st, Head(objs)), Tail(objs))

\* lines 75-114: the output set
unionOutput(sets, renum) ==
    unionLoop(unionStart(sets, renum), Flatten(sets)).outputSet

\* no run of the union protocol
UnionIdle ==
    [ inputSets |-> <<>>, renumber |-> FALSE, pc |-> "idle",
      outputSet |-> <<>>, error |-> NO_ERROR ]

\* ------------------------------------------------------------------------
\* ProtSplitSet._validate and createOutputStep (protocol_sets.py lines
\* 270-310)
\* ------------------------------------------------------------------------
IndexError == "IndexError"

\* the input set: its elements as their object ids, in ascending id order
SplitInputs ==
    {q \in UNION {[1 .. k -> ObjIds] : k \in 0 .. MaxObjId} :
        \A i, j \in 1 .. Len(q) : i < j => q[i] < q[j]}

\* the values of the numberOfSets parameter (an IntParam without validator)
NumberOfSets == 0 .. MaxNumberOfSets

\* the orders in which iterItems can give the elements: ascending id, or
\* any order with orderBy = 'RANDOM()' (lines 286-290)
splitOrders(elements, randomize) ==
    IF randomize
    THEN {q \in [1 .. Len(elements) -> Range(elements)] :
             \A i, j \in 1 .. Len(q) : q[i] = q[j] => i = j}
    ELSE {elements}

\* lines 305-310: the errors of _validate are empty
splitValid(elements, n) == ~(Len(elements) < n)

\* lines 283-284: the number of elements of each subset; range(n) is empty
\* when n <= 0
splitNs(L, n) ==
    IF n <= 0 THEN <<>>
    ELSE [k \in 1 .. n |-> (L \div n) + (IF k - 1 < L % n THEN 1 ELSE 0)]

\* lines 274-285: the state before the loop; pos and i are those of line
\* 285, addressed collects the indexes used on ns and on subsets
splitStart(n) ==
    [ subsets   |-> [k \in 1 .. n |-> <<>>],
      pos       |-> 0,
      i         |-> 0,
      addressed |-> {},
      err       |-> NO_ERROR ]

\* lines 290-295: one iteration of the loop, for the element elem; an
\* index that is not in the list raises IndexError
splitElem(st, elem, ns) ==
    IF st.err # NO_ERROR THEN st
    ELSE IF st.pos >= Len(ns)
    THEN [st EXCEPT !.addressed = @ \cup {st.pos}, !.err = IndexError]
    ELSE LET move == st.i >= ns[st.pos + 1]
             pos1 == IF move THEN st.pos + 1 ELSE st.pos
             i1   == IF move THEN 0 ELSE st.i
         IN  IF pos1 >= Len(st.subsets)
             THEN [st EXCEPT !.pos = pos1, !.i = i1,
                             !.addressed = @ \cup {st.pos, pos1},
                             !.err = IndexError]
             ELSE [st EXCEPT !.pos = pos1, !.i = i1 + 1,
                             !.addressed = @ \cup {st.pos, pos1},
                             !.subsets[pos1 + 1] = Append(@, elem)]

RECURSIVE splitLoop(_, _, _)
\* lines 290-295
splitLoop(st, elems, ns) ==
    IF elems = <<>> THEN st
    ELSE splitLoop(splitElem(st, Head(elems), ns), Tail(elems), ns)

\* lines 270-295: the subsets after the loop over the elements in the given
\* order
splitOutput(order, n) ==
    splitLoop(splitStart(n), order, splitNs(Len(order), n))

\* no run of the split protocol
SplitIdle ==
    [ inputSet |-> <<>>, numberOfSets |-> 2, randomize |-> FALSE,
      pc |-> "idle", subsets |-> <<>>, addressed |-> {},
      error |-> NO_ERROR ]

\* ------------------------------------------------------------------------
\* NodeConfigList (config.py lines 370-395)
\* ------------------------------------------------------------------------
\* the node ids; 0 is the id of the project node (line 325)
NodeIds == 0 .. MaxNodeId

\* the value getNode gives for an id that is not a key of _nodesDict
None == [id |-> -1, obj |-> 0]

\* line 383: a new NodeConfig object; obj tells apart two objects that
\* have the same id
NodeConfig(nodeId, obj) == [id |-> nodeId, obj |-> obj]

\* lines 375-377: the state after __init__
NodeConfigListInit == [items |-> <<>>, _nodesDict |-> <<>>, created |-> 0]

\* line 384: self._nodesDict[key] = node
setItem(dict, key, node) ==
    [k \in DOMAIN dict \cup {key} |-> IF k = key THEN node ELSE dict[k]]

\* lines 379-380: self._nodesDict.get(nodeId, None)
getNode(nl, nodeId) ==
    IF nodeId \in DOMAIN nl._nodesDict THEN nl._nodesDict[nodeId] ELSE None

\* lines 382-386
addNode(nl, nodeId) ==
    LET node == NodeConfig(nodeId, nl.created + 1)
    IN  [ items      |-> Append(nl.items, node),
          _nodesDict |-> setItem(nl._nodesDict, node.id, node),
          created    |-> nl.created + 1 ]

\* lines 393-395
clear(nl) == [nl EXCEPT !.items = <<>>, !._nodesDict = <<>>]

\* ------------------------------------------------------------------------
\* Initial state
\* ------------------------------------------------------------------------
NoEnv == <<>>

HistInit ==
    [ curEnv   |-> NoEnv,    \* what the pass in progress (or last) read
      sameEnv  |-> FALSE,    \* the last pass read what the complete pass
                             \* right before it had read
      start    |-> <<>>,     \* persisted outputs when the last pass started
      startGate |-> 0,       \* gateSets when the last pass started
      ended    |-> FALSE,    \* the last pass ran to its end
      pending  |-> {},       \* ids a complete pass left undone although
                             \* the stream was closed
      cut      |-> FALSE,    \* a closing pass was killed between the update
                             \* of the movie set and that of the micrographs
      kill     |-> <<>>,     \* done list and sets when the process was
                             \* killed after a complete pass
      phase    |-> 0,        \* 1: killed after a complete pass, 2: first
                             \* pass after that restart runs, 3: it ended
      raced    |-> FALSE,    \* a pass wrote its candidates to a done list
                             \* that had changed since the pass read it
      skipped  |-> FALSE,    \* a pass returned on self.finished although
                             \* FinishedNow was false when it ran
      failed   |-> 0 ]       \* the candidate whose output movie could not
                             \* be built by the pass that raised, else 0

\* the in-memory state of the second process, as memVars
OtherInit ==
    [ pc           |-> "idle",
      finished     |-> FALSE,
      listOfMovies |-> <<>>,
      streamClosed |-> FALSE,
      doneList     |-> <<>>,
      newDone      |-> <<>>,
      firstTime    |-> FALSE,
      streamMode   |-> STREAM_OPEN,
      appended     |-> {},    \* history: ids whose items it appended
      started      |-> FALSE ] \* history: it has started its pass

InitStream ==
    /\ inputMovies = <<>>
    /\ inputClosed = FALSE
    /\ ready = {}
    /\ doSaveAveMic \in BOOLEAN
    /\ doneFile = <<>>
    /\ movieSet = <<>>
    /\ movieState = STREAM_NONE
    /\ micSet = <<>>
    /\ micState = STREAM_NONE
    /\ relations = [n \in OutputNames |-> 0]
    /\ stepStatus = STATUS_WAITING
    /\ pc = "idle"
    /\ finished = FALSE
    /\ listOfMovies = <<>>
    /\ streamClosed = FALSE
    /\ doneList = <<>>
    /\ newDone = <<>>
    /\ firstTime = FALSE
    /\ streamMode = STREAM_OPEN
    /\ error = NO_ERROR
    /\ aborted = {}
    /\ gateSets = 0
    /\ hist = HistInit
    /\ other = OtherInit

Init ==
    /\ InitStream
    /\ union = UnionIdle
    /\ split = SplitIdle
    /\ nodeList = NodeConfigListInit

\* ------------------------------------------------------------------------
\* The producer
\* ------------------------------------------------------------------------
\* a new movie appears in the input set while its stream is open
AddItem ==
    /\ ~inputClosed
    /\ Len(inputMovies) < MaxItems
    /\ inputMovies' = Append(inputMovies, Len(inputMovies) + 1)
    /\ UNCHANGED <<inputClosed, ready, doSaveAveMic>>
    /\ UNCHANGED <<diskVars, memVars, histVars>>
    /\ UNCHANGED <<other, staticVars>>

\* a new movie appears in the input set after its stream was closed
AddItemLate ==
    /\ inputClosed
    /\ Len(inputMovies) < MaxItems
    /\ inputMovies' = Append(inputMovies, Len(inputMovies) + 1)
    /\ UNCHANGED <<inputClosed, ready, doSaveAveMic>>
    /\ UNCHANGED <<diskVars, memVars, histVars>>
    /\ UNCHANGED <<other, staticVars>>

\* a movie disappears from the input set (after the close of the stream, so
\* that the id of a movie added later is never the id of a movie still there)
RemoveItem ==
    /\ inputClosed
    /\ \E i \in 1 .. Len(inputMovies) :
          inputMovies' = [j \in 1 .. Len(inputMovies) - 1 |->
                            IF j < i THEN inputMovies[j]
                                     ELSE inputMovies[j + 1]]
    /\ ready' = ready \cap Range(inputMovies')
    /\ UNCHANGED <<inputClosed, doSaveAveMic>>
    /\ UNCHANGED <<diskVars, memVars, histVars>>
    /\ UNCHANGED <<other, staticVars>>

\* the processing step of one movie ends: its done file now exists
MovieProcessed ==
    /\ \E m \in Range(inputMovies) \ ready :
          ready' = ready \cup {m}
    /\ UNCHANGED <<inputMovies, inputClosed, doSaveAveMic>>
    /\ UNCHANGED <<diskVars, memVars, histVars>>
    /\ UNCHANGED <<other, staticVars>>

\* the producer closes the stream of the input set
CloseStream ==
    /\ ~inputClosed
    /\ inputClosed' = TRUE
    /\ UNCHANGED <<inputMovies, ready, doSaveAveMic>>
    /\ UNCHANGED <<diskVars, memVars, histVars>>
    /\ UNCHANGED <<other, staticVars>>

\* ------------------------------------------------------------------------
\* One pass of _checkNewOutput
\* ------------------------------------------------------------------------
\* what the producer shows to a pass: the input list, the readiness of its
\* movies and the stream state
EnvNow == <<inputMovies, ready \cap Range(inputMovies), inputClosed>>

\* the predicate of lines 132-135 on what a pass starting now would read
FinishedNow ==
    finishedOf(inputClosed, Len(_readDoneList(doneFile)), Len(inputMovies))

MemReset ==
    /\ doneList' = <<>>
    /\ newDone' = <<>>
    /\ firstTime' = FALSE
    /\ streamMode' = STREAM_OPEN

\* lines 117-125 (after ProtProcessMovies._loadInputList refreshed
\* self.listOfMovies and self.streamClosed)
Discover ==
    /\ pc = "idle"
    /\ IF finished
       THEN /\ hist' = [hist EXCEPT !.skipped = @ \/ ~FinishedNow]
            /\ UNCHANGED <<memVars, aborted, gateSets>>
       ELSE /\ listOfMovies' = inputMovies
            /\ streamClosed' = inputClosed
            /\ doneList' = _readDoneList(doneFile)
            /\ newDone' = newDoneOf(inputMovies, _readDoneList(doneFile), ready)
            /\ pc' = "commit"
            /\ error' = NO_ERROR
            /\ hist' = [hist EXCEPT
                          !.curEnv = EnvNow,
                          !.sameEnv = (hist.ended /\ EnvNow = hist.curEnv),
                          !.start = <<doneFile, movieSet, micSet>>,
                          !.startGate = gateSets,
                          !.ended = FALSE,
                          !.phase = IF @ = 1 THEN 2 ELSE 0,
                          !.failed = 0,
                          !.kill = IF hist.phase = 1 THEN @ ELSE <<>>]
            /\ UNCHANGED <<finished, firstTime, streamMode, aborted, gateSets>>
    /\ UNCHANGED <<envVars, diskVars>>
    /\ UNCHANGED <<other, staticVars>>

\* Commit without the write of the done list
CommitNoWrite ==
    /\ pc = "commit"
    /\ firstTime' = (Len(doneList) = 0)
    /\ finished' = finishedOf(streamClosed, Len(doneList) + Len(newDone),
                              Len(listOfMovies))
    /\ streamMode' = streamModeOf(finished')
    /\ pc' = "movies"
    /\ UNCHANGED diskVars
    /\ UNCHANGED <<listOfMovies, streamClosed, doneList, newDone, error>>
    /\ UNCHANGED <<envVars, histVars>>
    /\ UNCHANGED <<other, staticVars>>

\* Commit with the candidates of the pass left out of the count of done items
CommitStaleCount ==
    /\ pc = "commit"
    /\ doneFile' = IF newDone # <<>>
                   THEN _writeDoneList(doneFile, newDone)
                   ELSE doneFile
    /\ firstTime' = (Len(doneList) = 0)
    /\ finished' = finishedOf(streamClosed, Len(doneList), Len(listOfMovies))
    /\ streamMode' = streamModeOf(finished')
    /\ pc' = "movies"
    /\ UNCHANGED <<movieSet, movieState, micSet, micState, relations,
                   stepStatus>>
    /\ UNCHANGED <<listOfMovies, streamClosed, doneList, newDone, error>>
    /\ UNCHANGED <<envVars, histVars, other, staticVars>>

\* Commit with the finished predicate evaluated only by a pass that has
\* candidates
CommitSkipEmpty ==
    /\ pc = "commit"
    /\ doneFile' = IF newDone # <<>>
                   THEN _writeDoneList(doneFile, newDone)
                   ELSE doneFile
    /\ firstTime' = (Len(doneList) = 0)
    /\ finished' = IF newDone # <<>>
                   THEN finishedOf(streamClosed, Len(doneList) + Len(newDone),
                                   Len(listOfMovies))
                   ELSE FALSE
    /\ streamMode' = streamModeOf(finished')
    /\ pc' = "movies"
    /\ UNCHANGED <<movieSet, movieState, micSet, micState, relations,
                   stepStatus>>
    /\ UNCHANGED <<listOfMovies, streamClosed, doneList, newDone, error>>
    /\ UNCHANGED <<envVars, histVars, other, staticVars>>

\* Commit that drops from the done list the ids that are not ids of known
\* movies
CommitPrune ==
    /\ pc = "commit"
    /\ doneFile' = _writeDoneList(
                       SelectSeq(doneFile,
                                 LAMBDA d : d \in Range(listOfMovies)),
                       newDone)
    /\ firstTime' = (Len(doneList) = 0)
    /\ finished' = finishedOf(streamClosed, Len(doneList) + Len(newDone),
                              Len(listOfMovies))
    /\ streamMode' = streamModeOf(finished')
    /\ pc' = "movies"
    /\ UNCHANGED <<movieSet, movieState, micSet, micState, relations,
                   stepStatus>>
    /\ UNCHANGED <<listOfMovies, streamClosed, doneList, newDone, error>>
    /\ UNCHANGED <<envVars, histVars, other, staticVars>>

\* lines 127-136
Commit ==
    /\ pc = "commit"
    /\ doneFile' = IF newDone # <<>>
                   THEN _writeDoneList(doneFile, newDone)
                   ELSE doneFile
    /\ firstTime' = (Len(doneList) = 0)
    /\ finished' = finishedOf(streamClosed, Len(doneList) + Len(newDone),
                              Len(listOfMovies))
    /\ streamMode' = streamModeOf(finished')
    /\ pc' = "movies"
    /\ hist' = [hist EXCEPT
                  !.raced = @ \/ (newDone # <<>> /\ doneFile # doneList)]
    /\ UNCHANGED <<movieSet, movieState, micSet, micState, relations,
                   stepStatus>>
    /\ UNCHANGED <<listOfMovies, streamClosed, doneList, newDone, error>>
    /\ UNCHANGED <<envVars, aborted, gateSets>>
    /\ UNCHANGED <<other, staticVars>>

\* an exception leaves _checkNewOutput
Raise(err) ==
    /\ pc' = "idle"
    /\ error' = err
    /\ MemReset
    /\ UNCHANGED <<finished, listOfMovies, streamClosed>>
    /\ UNCHANGED <<envVars, diskVars, histVars>>

\* line 129 raises: _writeDoneList fails after it wrote the ids of the first
\* k candidates (none when k = 0), and the exception leaves the pass
CommitFail ==
    /\ pc = "commit"
    /\ newDone # <<>>
    /\ \E k \in 0 .. Len(newDone) - 1 :
          doneFile' = _writeDoneList(doneFile, SubSeq(newDone, 1, k))
    /\ pc' = "idle"
    /\ error' = TransientIOError
    /\ MemReset
    /\ UNCHANGED <<movieSet, movieState, micSet, micState, relations,
                   stepStatus>>
    /\ UNCHANGED <<finished, listOfMovies, streamClosed>>
    /\ UNCHANGED <<envVars, histVars, other, staticVars>>

\* line 144 raises: _createOutputMovie fails for the i-th candidate and the
\* exception leaves the pass before _updateOutputSet; the items appended to
\* the loaded set before the failure are kept by its file or not
MovieStepFail ==
    /\ pc = "movies"
    /\ \E i \in 1 .. Len(newDone) :
          LET loaded == _loadOutputSet(movieSet, movieState)
              items == [j \in 1 .. i - 1 |-> _createOutputMovie(newDone[j])]
              done == appendAll(loaded, items)
          IN  /\ movieSet' \in {movieSet} \cup
                     (IF movieState # STREAM_NONE THEN {done.items} ELSE {})
              /\ hist' = [hist EXCEPT !.failed = newDone[i]]
    /\ pc' = "idle"
    /\ error' = TransformError
    /\ MemReset
    /\ UNCHANGED <<doneFile, movieState, micSet, micState, relations,
                   stepStatus>>
    /\ UNCHANGED <<finished, listOfMovies, streamClosed>>
    /\ UNCHANGED <<envVars, aborted, gateSets, other, staticVars>>

\* MovieStep with the join step unlocked before the micrograph set is
\* updated
MovieStepUnlock ==
    /\ pc = "movies"
    /\ LET loaded == _loadOutputSet(movieSet, movieState)
           items == [i \in 1 .. Len(newDone) |-> _createOutputMovie(newDone[i])]
           done == appendAll(loaded, items)
           out == _updateOutputSet(done, streamMode)
           u == unlockStep(finished, stepStatus)
       IN  /\ movieSet' = out.items
           /\ movieState' = out.state
           /\ relations' = IF firstTime
                           THEN defineRelation(relations, "outputMovies")
                           ELSE relations
           /\ stepStatus' = u.status
           /\ gateSets' = IF u.called THEN Min(gateSets + 1, MaxGateSets)
                                      ELSE gateSets
           /\ pc' = "mics"
           /\ UNCHANGED <<doneFile, micSet, micState>>
           /\ UNCHANGED <<finished, listOfMovies, streamClosed, doneList,
                          newDone, firstTime, streamMode, error>>
           /\ UNCHANGED <<envVars, aborted, hist>>
    /\ UNCHANGED <<other, staticVars>>

\* lines 138-149, _doGenerateOutputMovies() is True (line 265)
MovieStep ==
    /\ pc = "movies"
    /\ LET loaded == _loadOutputSet(movieSet, movieState)
           items == [i \in 1 .. Len(newDone) |-> _createOutputMovie(newDone[i])]
           done == appendAll(loaded, items)
           out == _updateOutputSet(done, streamMode)
       IN  IF done.err # NO_ERROR
           THEN Raise(done.err)
           ELSE /\ movieSet' = out.items
                /\ movieState' = out.state
                /\ relations' = IF firstTime
                                THEN defineRelation(relations, "outputMovies")
                                ELSE relations
                /\ pc' = "mics"
                /\ UNCHANGED <<doneFile, micSet, micState, stepStatus>>
                /\ UNCHANGED <<finished, listOfMovies, streamClosed, doneList,
                               newDone, firstTime, streamMode, error>>
                /\ UNCHANGED <<envVars, histVars>>
    /\ UNCHANGED <<other, staticVars>>

\* lines 151-168
MicStep ==
    /\ pc = "mics"
    /\ LET loaded == _loadOutputSet(micSet, micState)
           items == [i \in 1 .. Len(newDone) |-> _createOutputMic(newDone[i])]
           done == appendAll(loaded, items)
           out == _updateOutputSet(done, streamMode)
       IN  IF ~doSaveAveMic
           THEN /\ pc' = "gate"
                /\ UNCHANGED <<finished, listOfMovies, streamClosed, doneList,
                               newDone, firstTime, streamMode, error>>
                /\ UNCHANGED <<envVars, diskVars, histVars>>
           ELSE IF done.err # NO_ERROR
           THEN Raise(done.err)
           ELSE /\ micSet' = out.items
                /\ micState' = out.state
                /\ relations' = IF firstTime
                                THEN defineRelation(relations,
                                                    "outputMicrographs")
                                ELSE relations
                /\ pc' = "gate"
                /\ UNCHANGED <<doneFile, movieSet, movieState, stepStatus>>
                /\ UNCHANGED <<finished, listOfMovies, streamClosed, doneList,
                               newDone, firstTime, streamMode, error>>
                /\ UNCHANGED <<envVars, histVars>>
    /\ UNCHANGED <<other, staticVars>>

\* lines 170-173; the pass ends
GateStep ==
    /\ pc = "gate"
    /\ LET u == unlockStep(finished, stepStatus)
       IN  /\ stepStatus' = u.status
           /\ gateSets' = IF u.called THEN Min(gateSets + 1, MaxGateSets)
                                      ELSE gateSets
    /\ pc' = "idle"
    /\ MemReset
    /\ hist' = [hist EXCEPT
                  !.ended = TRUE,
                  !.phase = IF @ = 2 THEN 3 ELSE @,
                  !.pending = IF streamClosed
                              THEN @ \cup (Range(listOfMovies)
                                              \ Range(doneFile))
                              ELSE @]
    /\ UNCHANGED <<doneFile, movieSet, movieState, micSet, micState,
                   relations>>
    /\ UNCHANGED <<finished, listOfMovies, streamClosed, error, aborted>>
    /\ UNCHANGED envVars
    /\ UNCHANGED <<other, staticVars>>

\* ------------------------------------------------------------------------
\* The process and the scheduler
\* ------------------------------------------------------------------------
\* the process is killed and started again: what was in memory is lost,
\* what was written stays
Crash ==
    /\ pc # "idle" \/ finished \/ listOfMovies # <<>> \/ streamClosed
    /\ pc' = "idle"
    /\ finished' = FALSE
    /\ listOfMovies' = <<>>
    /\ streamClosed' = FALSE
    /\ error' = NO_ERROR
    /\ MemReset
    /\ aborted' = IF pc # "idle" THEN aborted \cup Range(newDone) ELSE aborted
    /\ hist' = IF pc # "idle"
               THEN [hist EXCEPT
                       !.sameEnv = FALSE,
                       !.ended = FALSE,
                       !.cut = @ \/ (pc = "mics" /\ doSaveAveMic
                                       /\ streamMode = STREAM_CLOSED),
                       !.phase = 0,
                       !.kill = <<>>]
               ELSE IF hist.ended
               THEN [hist EXCEPT
                       !.phase = 1,
                       !.kill = <<doneFile, movieSet, micSet>>]
               ELSE hist
    /\ UNCHANGED gateSets
    /\ UNCHANGED <<envVars, diskVars>>
    /\ UNCHANGED <<other, staticVars>>

\* the scheduler starts the join step once it is not waiting any more
RunJoinStep ==
    /\ stepStatus = STATUS_NEW
    /\ stepStatus' = STATUS_RUNNING
    /\ UNCHANGED <<doneFile, movieSet, movieState, micSet, micState,
                   relations>>
    /\ UNCHANGED <<envVars, memVars, histVars>>
    /\ UNCHANGED <<other, staticVars>>

\* lines 92-94: createOutputStep does nothing and ends
createOutputStep ==
    /\ stepStatus = STATUS_RUNNING
    /\ stepStatus' = STATUS_FINISHED
    /\ UNCHANGED <<doneFile, movieSet, movieState, micSet, micState,
                   relations>>
    /\ UNCHANGED <<envVars, memVars, histVars>>
    /\ UNCHANGED <<other, staticVars>>

\* ------------------------------------------------------------------------
\* A second process running _checkNewOutput of the same protocol
\* ------------------------------------------------------------------------
\* lines 117-125 in the second process, which runs one pass
Discover2 ==
    /\ other.pc = "idle"
    /\ ~other.started
    /\ other' = IF other.finished
                THEN [other EXCEPT !.started = TRUE]
                ELSE [other EXCEPT
                        !.started = TRUE,
                        !.listOfMovies = inputMovies,
                        !.streamClosed = inputClosed,
                        !.doneList = _readDoneList(doneFile),
                        !.newDone = newDoneOf(inputMovies,
                                              _readDoneList(doneFile), ready),
                        !.pc = "commit"]
    /\ UNCHANGED <<envVars, diskVars, memVars, histVars>>
    /\ UNCHANGED staticVars

\* lines 127-136 in the second process
Commit2 ==
    /\ other.pc = "commit"
    /\ doneFile' = IF other.newDone # <<>>
                   THEN _writeDoneList(doneFile, other.newDone)
                   ELSE doneFile
    /\ LET fin == finishedOf(other.streamClosed,
                             Len(other.doneList) + Len(other.newDone),
                             Len(other.listOfMovies))
       IN  other' = [other EXCEPT
                       !.firstTime = (Len(other.doneList) = 0),
                       !.finished = fin,
                       !.streamMode = streamModeOf(fin),
                       !.pc = "movies"]
    /\ hist' = [hist EXCEPT
                  !.raced = @ \/ (other.newDone # <<>>
                                    /\ doneFile # other.doneList)]
    /\ UNCHANGED <<movieSet, movieState, micSet, micState, relations,
                   stepStatus>>
    /\ UNCHANGED <<envVars, memVars, aborted, gateSets>>
    /\ UNCHANGED staticVars

\* lines 138-149 in the second process
MovieStep2 ==
    /\ other.pc = "movies"
    /\ LET loaded == _loadOutputSet(movieSet, movieState)
           items == [i \in 1 .. Len(other.newDone) |->
                        _createOutputMovie(other.newDone[i])]
           done == appendAll(loaded, items)
           out == _updateOutputSet(done, other.streamMode)
       IN  /\ movieSet' = out.items
           /\ movieState' = out.state
    /\ relations' = IF other.firstTime
                    THEN defineRelation(relations, "outputMovies")
                    ELSE relations
    /\ other' = [other EXCEPT
                   !.pc = "mics",
                   !.appended = @ \cup Range(other.newDone)]
    /\ UNCHANGED <<doneFile, micSet, micState, stepStatus>>
    /\ UNCHANGED <<envVars, memVars, histVars>>
    /\ UNCHANGED staticVars

\* lines 151-168 in the second process
MicStep2 ==
    /\ other.pc = "mics"
    /\ LET loaded == _loadOutputSet(micSet, micState)
           items == [i \in 1 .. Len(other.newDone) |->
                        _createOutputMic(other.newDone[i])]
           done == appendAll(loaded, items)
           out == _updateOutputSet(done, other.streamMode)
       IN  IF ~doSaveAveMic
           THEN UNCHANGED <<micSet, micState, relations>>
           ELSE /\ micSet' = out.items
                /\ micState' = out.state
                /\ relations' = IF other.firstTime
                                THEN defineRelation(relations,
                                                    "outputMicrographs")
                                ELSE relations
    /\ other' = [other EXCEPT !.pc = "gate"]
    /\ UNCHANGED <<doneFile, movieSet, movieState, stepStatus>>
    /\ UNCHANGED <<envVars, memVars, histVars>>
    /\ UNCHANGED staticVars

\* lines 170-173 in the second process; its pass ends
GateStep2 ==
    /\ other.pc = "gate"
    /\ LET u == unlockStep(other.finished, stepStatus)
       IN  /\ stepStatus' = u.status
           /\ gateSets' = IF u.called THEN Min(gateSets + 1, MaxGateSets)
                                      ELSE gateSets
    /\ other' = [other EXCEPT
                   !.pc = "idle",
                   !.doneList = <<>>,
                   !.newDone = <<>>,
                   !.firstTime = FALSE,
                   !.streamMode = STREAM_OPEN]
    /\ UNCHANGED <<doneFile, movieSet, movieState, micSet, micState,
                   relations>>
    /\ UNCHANGED <<envVars, memVars, aborted, hist>>
    /\ UNCHANGED staticVars

\* ------------------------------------------------------------------------
\* Specifications
\* ------------------------------------------------------------------------
Pass == Discover \/ Commit \/ MovieStep \/ MicStep \/ GateStep

\* the producer adds movies only while its stream is open
Next ==
    \/ AddItem
    \/ MovieProcessed
    \/ CloseStream
    \/ Discover
    \/ Commit
    \/ MovieStep
    \/ MicStep
    \/ GateStep
    \/ Crash
    \/ RunJoinStep
    \/ createOutputStep

Spec == Init /\ [][Next]_vars

\* the input list may also grow after the stream was closed
NextLate == Next \/ AddItemLate

SpecLate == Init /\ [][NextLate]_vars

\* two processes run passes of the same protocol at the same time; no kill
NextConc ==
    \/ AddItem
    \/ MovieProcessed
    \/ CloseStream
    \/ Discover
    \/ Commit
    \/ MovieStep
    \/ MicStep
    \/ GateStep
    \/ Discover2
    \/ Commit2
    \/ MovieStep2
    \/ MicStep2
    \/ GateStep2

\* both output sets are written
InitConc == Init /\ doSaveAveMic

SpecConc == InitConc /\ [][NextConc]_vars

\* the process is never killed, passes keep being invoked and run to their
\* end, the producer closes its stream and every movie of the input set
\* gets processed
NextLive ==
    \/ AddItem
    \/ MovieProcessed
    \/ CloseStream
    \/ Discover
    \/ Commit
    \/ MovieStep
    \/ MicStep
    \/ GateStep
    \/ RunJoinStep
    \/ createOutputStep

Fairness ==
    /\ WF_vars(CloseStream)
    /\ WF_vars(MovieProcessed)
    /\ WF_vars(Discover)
    /\ WF_vars(Commit)
    /\ WF_vars(MovieStep)
    /\ WF_vars(MicStep)
    /\ WF_vars(GateStep)

SpecLive == Init /\ [][NextLive]_vars /\ Fairness

\* the list of known movies is not stable: a movie may disappear from it
\* (the process is not killed)
NextVanish ==
    \/ NextLive
    \/ RemoveItem

SpecVanish == Init /\ [][NextVanish]_vars

\* a call made by the pass may raise: the write of the done list, the build
\* of an output movie (the process is not killed)
NextFail ==
    \/ NextLive
    \/ CommitFail
    \/ MovieStepFail

SpecFail == Init /\ [][NextFail]_vars

\* the union protocol is run once on the given input sets (the streaming
\* protocol does not run)
InitUnion ==
    /\ InitStream
    /\ ~doSaveAveMic
    /\ union \in {[UnionIdle EXCEPT !.inputSets = q, !.renumber = r,
                                    !.pc = "new"] :
                     q \in InputSetLists, r \in BOOLEAN}
    /\ split = SplitIdle
    /\ nodeList = NodeConfigListInit

\* ProtUnionSet.createOutputStep, lines 75-114
UnionCreateOutputStep ==
    /\ union.pc = "new"
    /\ LET out == unionOutput(union.inputSets, union.renumber)
       IN  union' = [union EXCEPT
                       !.pc = IF out.err = NO_ERROR THEN "done" ELSE "failed",
                       !.outputSet = out.items,
                       !.error = out.err]
    /\ UNCHANGED <<envVars, diskVars, memVars, histVars, other, split,
                   nodeList>>

SpecUnion == InitUnion /\ [][UnionCreateOutputStep]_vars

\* the split protocol is run once on the given input set (the streaming
\* protocol and the union protocol do not run)
InitSplit ==
    /\ InitStream
    /\ ~doSaveAveMic
    /\ union = UnionIdle
    /\ split \in {[SplitIdle EXCEPT !.inputSet = q, !.numberOfSets = n,
                                    !.randomize = r, !.pc = "new"] :
                     q \in SplitInputs, n \in NumberOfSets, r \in BOOLEAN}
    /\ nodeList = NodeConfigListInit

\* ProtSplitSet._validate, lines 305-310: the protocol is launched only
\* without errors
SplitValidate ==
    /\ split.pc = "new"
    /\ split' = [split EXCEPT
                   !.pc = IF splitValid(split.inputSet, split.numberOfSets)
                          THEN "valid" ELSE "rejected"]
    /\ UNCHANGED <<envVars, diskVars, memVars, histVars, other, union,
                   nodeList>>

\* ProtSplitSet.createOutputStep, lines 270-302
SplitCreateOutputStep ==
    /\ split.pc = "valid"
    /\ \E order \in splitOrders(split.inputSet, split.randomize) :
          LET out == splitOutput(order, split.numberOfSets)
          IN  split' = [split EXCEPT
                          !.pc = IF out.err = NO_ERROR
                                 THEN "done" ELSE "failed",
                          !.subsets = out.subsets,
                          !.addressed = out.addressed,
                          !.error = out.err]
    /\ UNCHANGED <<envVars, diskVars, memVars, histVars, other, union,
                   nodeList>>

NextSplit ==
    \/ SplitValidate
    \/ SplitCreateOutputStep

SpecSplit == InitSplit /\ [][NextSplit]_vars

\* NodeConfigList.addNode, lines 382-386, called with any node id
AddNode ==
    /\ nodeList.created < MaxNodes
    /\ \E nodeId \in NodeIds : nodeList' = addNode(nodeList, nodeId)
    /\ UNCHANGED <<envVars, diskVars, memVars, histVars, other, union,
                   split>>

\* NodeConfigList.clear, lines 393-395
ClearNodes ==
    /\ nodeList' = clear(nodeList)
    /\ UNCHANGED <<envVars, diskVars, memVars, histVars, other, union,
                   split>>

NextNodes ==
    \/ AddNode
    \/ ClearNodes

\* a new NodeConfigList (the protocols do not run)
InitNodes == Init /\ ~doSaveAveMic

\* addNode and clear are called on it in any order
SpecNodes == InitNodes /\ [][NextNodes]_vars

TypeOK ==
    /\ Range(inputMovies) \subseteq Ids
    /\ ready \subseteq Range(inputMovies)
    /\ Range(doneFile) \subseteq Ids
    /\ movieState \in {STREAM_NONE, STREAM_OPEN, STREAM_CLOSED}
    /\ micState \in {STREAM_NONE, STREAM_OPEN, STREAM_CLOSED}
    /\ stepStatus \in {STATUS_WAITING, STATUS_NEW, STATUS_RUNNING,
                       STATUS_FINISHED}
    /\ pc \in {"idle", "commit", "movies", "mics", "gate"}
    /\ error = NO_ERROR

\* ------------------------------------------------------------------------
\* Properties
\* ------------------------------------------------------------------------
\* id has no item in some output set the protocol writes
Missing(id) == \E n \in Owned : id \notin OutIds(n)

\* C1: append before mark. Whenever a step writes ids to the done list, the
\* items of those ids are already in every output set the protocol writes.
C1_AppendBeforeMark ==
    [][\A id \in Range(doneFile') \ Range(doneFile) : ~Missing(id)]_vars

\* C2: between passes (after complete passes, kills and restarts) every id
\* of the done list has its item in every output set the protocol writes.
C2_DoneHasOutput ==
    pc = "idle" => \A id \in Range(doneFile) : \A n \in Owned : id \in OutIds(n)

\* C3: at most once. No output set ever holds two items with the same
\* object id, whatever passes were killed before.
C3_AtMostOnce ==
    \A n \in OutputNames : \A id \in Ids : Count(IdsOf(Items(n)), id) <= 1

\* a candidate of a killed pass was appended, once, by a later complete pass
C3_Witness ==
    /\ pc = "idle"
    /\ hist.ended
    /\ doSaveAveMic
    /\ \E id \in aborted :
          /\ Count(IdsOf(movieSet), id) = 1
          /\ Count(IdsOf(micSet), id) = 1

\* C4: nothing is lost by a killed pass. A candidate of a killed pass whose
\* item is missing from an output set is not in the done list once the
\* process is back between passes, and it is a candidate of the next pass.
C4_NoLoss ==
    \A id \in aborted :
        Missing(id) =>
            /\ pc = "idle" => id \notin Range(doneFile)
            /\ pc = "commit" => id \in Range(newDone)

\* C5: idempotence. A pass that ran to its end and had read the same input
\* list, readiness and stream state as the complete pass before it has
\* appended nothing, written nothing to the done list and has not set the
\* status of the join step.
C5_Idempotent ==
    (pc = "idle" /\ hist.ended /\ hist.sameEnv) =>
        /\ <<doneFile, movieSet, micSet>> = hist.start
        /\ gateSets = hist.startGate

\* a second pass over unchanged input ran after the sets were closed
C5_Witness ==
    /\ pc = "idle"
    /\ hist.ended
    /\ hist.sameEnv
    /\ Len(movieSet) >= 1
    /\ movieState = STREAM_CLOSED
    /\ stepStatus # STATUS_WAITING

\* C6: monotonicity. No step shortens an output set, and no step changes
\* the length of an output set whose stream state is CLOSED.
C6_Monotone ==
    [][\A n \in OutputNames :
          /\ Len(Items(n)') >= Len(Items(n))
          /\ State(n) = STREAM_CLOSED => Len(Items(n)') = Len(Items(n))]_vars

\* C7: a pass that has candidates and reaches an output set whose persisted
\* stream state is CLOSED does not append to it and does not go on: the
\* pass ends there (ClosedCollectionError).
C7_ClosedAppendFails ==
    [][/\ (pc = "movies" /\ newDone # <<>> /\ movieState = STREAM_CLOSED)
            => (movieSet' = movieSet /\ pc' # "mics")
       /\ (pc = "mics" /\ doSaveAveMic /\ newDone # <<>>
              /\ micState = STREAM_CLOSED)
            => (micSet' = micSet /\ pc' # "gate")]_vars

\* C8: once the stream state of an output set is CLOSED, its items never
\* change and its stream state stays CLOSED.
C8_ClosedImmutable ==
    [][\A n \in OutputNames :
          State(n) = STREAM_CLOSED =>
              (Items(n)' = Items(n) /\ State(n)' = STREAM_CLOSED)]_vars

\* all the movies the pass knows are in the done list
AllKnownDone == Range(listOfMovies) \subseteq Range(doneFile)

\* C9: completion. After its commit a pass has finished = TRUE exactly when
\* the stream is closed and all N known movies are in the done list; a pass
\* with finished = FALSE leaves the sets OPEN and the join step waiting; a
\* pass with finished = TRUE ends with every set CLOSED and the join step
\* released; no set is CLOSED and the step is not released while the
\* producer is open or a known movie is not in the done list.
C9_Completion ==
    /\ pc \in {"movies", "mics", "gate"} =>
          (finished <=> (streamClosed /\ AllKnownDone))
    /\ (pc = "gate" /\ ~finished) =>
          /\ \A n \in Owned : State(n) = STREAM_OPEN
          /\ stepStatus = STATUS_WAITING
    /\ (pc = "idle" /\ finished) =>
          /\ \A n \in Owned : State(n) = STREAM_CLOSED
          /\ stepStatus # STATUS_WAITING
    /\ ((\E n \in OutputNames : State(n) = STREAM_CLOSED)
          \/ stepStatus # STATUS_WAITING) =>
          (inputClosed /\ Range(inputMovies) \subseteq Range(doneFile))

\* the pass that marked the last of two movies closed both sets and
\* released the join step
C9_Witness ==
    /\ pc = "idle"
    /\ finished
    /\ hist.ended
    /\ Len(hist.start[1]) < Len(doneFile)
    /\ Len(listOfMovies) >= 2
    /\ doSaveAveMic
    /\ movieState = STREAM_CLOSED
    /\ micState = STREAM_CLOSED
    /\ stepStatus = STATUS_NEW

\* C10: the join step is released at most once. _checkNewOutput calls
\* setStatus only on a waiting step, at most once over all passes and
\* restarts, and the step never goes back to waiting.
C10_GateOnce ==
    [][/\ stepStatus # STATUS_WAITING => stepStatus' # STATUS_WAITING
       /\ gateSets' <= 1
       /\ gateSets' # gateSets =>
             (stepStatus = STATUS_WAITING /\ stepStatus' = STATUS_NEW)]_vars

\* a pass of a restarted process ran to its end after the join step had
\* been released and had run
C10_Witness ==
    /\ pc = "idle"
    /\ hist.ended
    /\ hist.startGate = 1
    /\ gateSets = 1
    /\ stepStatus = STATUS_FINISHED

\* the ids the pass in progress, or the last one, found ready when it read
\* the input
ReadyRead == hist.curEnv[2]

\* the ids the last pass wrote to the done list
NewlyMarked == Range(doneFile) \ Range(hist.start[1])

\* C11: closed producer, pending item. A pass that read the stream as
\* closed while a known movie is not in the done list computes finished =
\* FALSE, ends with the sets OPEN and the join step waiting; an item left
\* pending that way is a candidate of the pass that finds it ready, and the
\* pass that marks it has appended it when it ends.
C11_ClosedPending ==
    /\ (pc \in {"movies", "mics", "gate"} /\ streamClosed /\ ~AllKnownDone) =>
          (~finished /\ streamMode = STREAM_OPEN)
    /\ (pc = "idle" /\ hist.ended /\ streamClosed /\ ~AllKnownDone) =>
          /\ \A n \in Owned : State(n) = STREAM_OPEN
          /\ stepStatus = STATUS_WAITING
    /\ \A id \in hist.pending :
          /\ (pc = "commit" /\ id \in ReadyRead /\ id \notin Range(doneList))
                => id \in Range(newDone)
          /\ (pc = "idle" /\ hist.ended /\ id \in NewlyMarked)
                => ~Missing(id)

\* an item left pending by a pass over a closed stream was marked and
\* appended by a later pass, which closed the sets
C11_Witness ==
    /\ pc = "idle"
    /\ hist.ended
    /\ doSaveAveMic
    /\ \E id \in hist.pending : id \in NewlyMarked /\ ~Missing(id)
    /\ movieState = STREAM_CLOSED
    /\ stepStatus = STATUS_NEW

\* C12: finalize ordering. In every state in which _checkNewOutput has
\* released the join step, every output set the protocol writes has the
\* stream state CLOSED.
C12_CloseBeforeGate ==
    gateSets >= 1 => \A n \in Owned : State(n) = STREAM_CLOSED

\* the join step was released after a closing pass had been killed between
\* the two set updates
C12_Witness ==
    /\ hist.cut
    /\ doSaveAveMic
    /\ gateSets = 1
    /\ stepStatus = STATUS_NEW
    /\ movieState = STREAM_CLOSED
    /\ micState = STREAM_CLOSED

\* C13: the relation of each output set to the input set is recorded once
\* over all passes, and not before an item has been appended to that set.
C13_RelationOnce ==
    \A n \in OutputNames :
        /\ relations[n] <= 1
        /\ relations[n] >= 1 => Items(n) # <<>>

\* C14: restart recovery. In the first pass after the process was killed
\* following a complete pass, the done list read is the one of the kill,
\* no candidate is among its ids, each output set still begins with the
\* items it held at the kill, and the items added after them are of ids
\* that were not in the done list at the kill.
C14_RestartRecovery ==
    hist.phase \in {2, 3} =>
        /\ pc = "commit" =>
              /\ doneList = hist.kill[1]
              /\ Range(newDone) \cap Range(hist.kill[1]) = {}
        /\ IsPrefix(hist.kill[1], doneFile)
        /\ IsPrefix(hist.kill[2], movieSet)
        /\ IsPrefix(hist.kill[3], micSet)
        /\ Range(IdsOf(After(movieSet, Len(hist.kill[2]))))
              \cap Range(hist.kill[1]) = {}
        /\ Range(IdsOf(After(micSet, Len(hist.kill[3]))))
              \cap Range(hist.kill[1]) = {}

\* the first pass after the restart kept the items of both sets and
\* appended the items of the movies done since
C14_Witness ==
    /\ hist.phase = 3
    /\ doSaveAveMic
    /\ Len(hist.kill[1]) >= 1
    /\ Len(hist.kill[2]) >= 1
    /\ Len(hist.kill[3]) >= 1
    /\ Len(movieSet) > Len(hist.kill[2])
    /\ Len(micSet) > Len(hist.kill[3])

\* no id twice in an output set or in the done list
NoDuplicates ==
    /\ \A n \in OutputNames : \A id \in Ids : Count(IdsOf(Items(n)), id) <= 1
    /\ \A id \in Ids : Count(doneFile, id) <= 1

\* C15 as stated: with two passes of the same protocol that interleave, no
\* item is appended twice to an output set and no id is written twice to
\* the done list.
C15_AtMostOnceConcurrent == NoDuplicates

\* C15 as amended: as long as no pass has written its candidates to a done
\* list that changed after the pass read it, no item is twice in an output
\* set and no id is twice in the done list.
C15_AtMostOnceNoRace == ~hist.raced => NoDuplicates

\* both processes have appended items, and neither wrote over a done list
\* it had not read
C15_Witness ==
    /\ ~hist.raced
    /\ pc = "idle"
    /\ other.pc = "idle"
    /\ other.appended # {}
    /\ OutIds("outputMovies") \ other.appended # {}

\* every known movie is in the done list, every output set the protocol
\* writes is CLOSED and the join step is released
AllClosed ==
    /\ inputClosed
    /\ Range(inputMovies) \subseteq Range(doneFile)
    /\ \A n \in Owned : State(n) = STREAM_CLOSED
    /\ stepStatus # STATUS_WAITING

\* a pass that ran to its end has defined every output set the protocol
\* writes, with the stream state OPEN if the pass read the stream as open
OutputAvailable ==
    (pc = "idle" /\ hist.ended) =>
        \A n \in Owned :
            /\ State(n) # STREAM_NONE
            /\ ~streamClosed => State(n) = STREAM_OPEN

\* C16: liveness. When passes keep running, the producer closes and every
\* known movie becomes ready, then from some point on every known movie is
\* in the done list, every output set is CLOSED and the join step is
\* released; and the output sets are available from the first complete
\* pass on, OPEN while the stream is open.
C16_Liveness == <>[]AllClosed /\ []OutputAvailable

\* two movies went through: both sets are closed with their items and the
\* join step has run
C16_Witness ==
    /\ AllClosed
    /\ doSaveAveMic
    /\ Len(inputMovies) >= 2
    /\ OutIds("outputMovies") = Range(inputMovies)
    /\ OutIds("outputMicrographs") = Range(inputMovies)
    /\ stepStatus = STATUS_FINISHED

\* C17: after the commit of a pass, finished is (stream closed) and (size of
\* the done list = number of known movies), and the size of the done list
\* is the size read at the start of the pass plus the number of candidates.
C17_FinishedPredicate ==
    pc \in {"movies", "mics", "gate"} =>
        /\ Len(doneFile) = Len(doneList) + Len(newDone)
        /\ finished <=> (streamClosed /\ Len(doneFile) = Len(listOfMovies))

\* a pass found the done list non-empty, marked the rest and computed
\* finished = TRUE
C17_Witness ==
    /\ pc = "gate"
    /\ finished
    /\ doneList # <<>>
    /\ newDone # <<>>

\* C18: finished is the predicate of C17 re-evaluated by every pass, no
\* cached value is consulted: no pass returns with finished = TRUE when the
\* predicate is false on the lists it could read (a movie was added to the
\* known list after finished became TRUE).
C18_FinishedReevaluated ==
    ~hist.skipped

\* C19 as stated: whenever a pass has computed finished = TRUE, every movie
\* of the known list is in the done list, also when the done list holds an
\* id that is not in the known list or a movie disappeared from the list.
C19_FinishedAllDone ==
    (pc \in {"movies", "mics", "gate"} /\ finished) => AllKnownDone

\* C19 amended: whenever a pass has computed finished = TRUE and every id of
\* the done list is the id of a known movie, every known movie is in the
\* done list.
C19_FinishedAllDoneStable ==
    (/\ pc \in {"movies", "mics", "gate"}
     /\ finished
     /\ Range(doneFile) \subseteq Range(listOfMovies)) => AllKnownDone

\* a movie disappeared before it was done and the pass computed
\* finished = TRUE on the remaining ones
C19_Witness ==
    /\ pc = "gate"
    /\ finished
    /\ listOfMovies # <<>>
    /\ listOfMovies[1] > 1
    /\ Range(doneFile) = Range(listOfMovies)

\* the ids of the items the pass in progress has appended to an output set
AppendedNow(name) ==
    Range(IdsOf(After(Items(name),
                      Len(hist.start[IF name = "outputMovies" THEN 2 ELSE 3]))))

\* C20: during a pass the candidates are exactly the known movies that were
\* ready and whose id is not in the done list read at the start of the pass,
\* in the order of the known list; every item the pass builds and appends is
\* one of a candidate, so none has an id that was in the done list.
C20_Candidates ==
    pc # "idle" =>
        /\ doneList = hist.start[1]
        /\ newDone = SelectSeq(listOfMovies,
                         LAMBDA m : m \in ReadyRead /\ m \notin Range(doneList))
        /\ \A n \in OutputNames :
              /\ AppendedNow(n) \subseteq Range(newDone)
              /\ AppendedNow(n) \cap Range(doneList) = {}

\* a pass that read a non-empty done list has appended the item of a
\* candidate
C20_Witness ==
    /\ pc = "mics"
    /\ doneList # <<>>
    /\ newDone # <<>>
    /\ AppendedNow("outputMovies") # {}

\* the ids of the items the pass in progress has appended to an output set,
\* in the order of the set
AppendedSeq(name) ==
    IdsOf(After(Items(name),
                Len(hist.start[IF name = "outputMovies" THEN 2 ELSE 3])))

\* C21: within a pass the items are appended to each output set in the order
\* of the candidates, which is the order of the known list restricted to the
\* movies that were ready and not in the done list read by the pass.
C21_AppendOrder ==
    LET cand == newDoneOf(hist.curEnv[1], hist.start[1], ReadyRead)
    IN  /\ pc \in {"mics", "gate"} => AppendedSeq("outputMovies") = cand
        /\ (pc = "gate" /\ doSaveAveMic) =>
               AppendedSeq("outputMicrographs") = cand

\* a pass appended the items of two candidates to both sets
C21_Witness ==
    /\ pc = "gate"
    /\ doSaveAveMic
    /\ Len(newDone) >= 2
    /\ Len(AppendedSeq("outputMicrographs")) >= 2

\* C22: an output set is created by the first pass that appends an item to
\* it; a pass with no candidate and no set on disk creates none. Hence a set
\* that exists holds at least one item.
C22_LazyCreation ==
    \A n \in OutputNames : State(n) # STREAM_NONE => Items(n) # <<>>

\* C23: a pass with zero candidates raises no error and evaluates the
\* finished predicate; when it read the stream as closed and the done list
\* it read has as many ids as there are known movies (zero included), it
\* ends with every owned set CLOSED and the join step released.
C23_ZeroCandidates ==
    /\ (pc \in {"movies", "mics", "gate"} /\ newDone = <<>>) =>
          /\ error = NO_ERROR
          /\ finished <=>
                (streamClosed /\ Len(doneList) = Len(listOfMovies))
    /\ (/\ pc = "idle"
        /\ hist.ended
        /\ doneFile = hist.start[1]
        /\ streamClosed
        /\ Len(hist.start[1]) = Len(listOfMovies)) =>
          /\ error = NO_ERROR
          /\ \A n \in Owned : State(n) = STREAM_CLOSED
          /\ stepStatus # STATUS_WAITING

\* a pass with zero candidates over a non-empty known list closed the sets
\* and released the join step
C23_Witness ==
    /\ pc = "idle"
    /\ hist.ended
    /\ doneFile = hist.start[1]
    /\ streamClosed
    /\ Len(listOfMovies) >= 1
    /\ Len(hist.start[1]) = Len(listOfMovies)
    /\ gateSets > hist.startGate
    /\ movieState = STREAM_CLOSED

\* the candidates of the last pass that started
Candidates == newDoneOf(hist.curEnv[1], hist.start[1], ReadyRead)

\* C24: failure isolation. When the build of the item of one candidate
\* raised, the failed candidate is not in the done list (it is a candidate
\* of the next pass) and every other candidate of the pass is in the done
\* list with its item in the output set.
C24_FailureIsolation ==
    (pc = "idle" /\ error = TransformError) =>
        /\ hist.failed \notin Range(doneFile)
        /\ \A id \in Range(Candidates) \ {hist.failed} :
              /\ id \in Range(doneFile)
              /\ id \in OutIds("outputMovies")

\* C25: when the write of the done list raised, the pass has closed no
\* output set, has not released the join step, has left the output sets as
\* they were, and none of its candidates is in the done list, so that the
\* next pass retries the same candidates.
C25_WriteFailure ==
    (pc = "idle" /\ error = TransientIOError) =>
        /\ \A n \in OutputNames : State(n) # STREAM_CLOSED
        /\ gateSets = hist.startGate
        /\ <<movieSet, micSet>> = <<hist.start[2], hist.start[3]>>
        /\ Range(Candidates) \cap Range(doneFile) = {}

\* the ids of the done list read by the last pass that are not ids of the
\* known list it read
Foreign == Range(hist.start[1]) \ Range(hist.curEnv[1])

\* C26: a pass that reads a done list with an id absent from the known list
\* raises no error, has no candidate and appends no item with that id, and
\* leaves the id in the done list.
C26_ForeignIdKept ==
    (pc # "idle" \/ hist.ended) =>
        /\ error = NO_ERROR
        /\ Foreign \cap Range(newDone) = {}
        /\ \A n \in OutputNames : Foreign \cap Range(AppendedSeq(n)) = {}
        /\ Foreign \subseteq Range(doneFile)

\* a pass that read a done list with a foreign id ran to its end and
\* appended the item of a known movie
C26_Witness ==
    /\ pc = "idle"
    /\ hist.ended
    /\ Foreign # {}
    /\ AppendedSeq("outputMovies") # <<>>

\* C27: the persisted done list only grows. No step removes an id from it or
\* changes the ids it holds (passes and restarts included), after its commit
\* a pass has added to the list it read exactly its candidates, and no id is
\* in the list twice.
C27_DoneSetGrows ==
    /\ [][IsPrefix(doneFile, doneFile')]_vars
    /\ [](pc \in {"movies", "mics", "gate"} =>
             doneFile = hist.start[1] \o newDone)
    /\ [](\A id \in Ids : Count(doneFile, id) <= 1)

\* after a restart a pass added a candidate to a non-empty done list
C27_Witness ==
    /\ pc = "gate"
    /\ hist.phase = 2
    /\ hist.start[1] # <<>>
    /\ newDone # <<>>
    /\ Len(doneFile) > Len(hist.kill[1])

\* C28: every item appended by a pass carries the object id of a movie of
\* the known list, no step changes or removes an item an output set already
\* holds (its id is never reassigned), and the ids of each output set are
\* ids of movies of the input set.
C28_IdsKept ==
    /\ [][\A n \in OutputNames : IsPrefix(Items(n), Items(n)')]_vars
    /\ [](pc # "idle" =>
             \A n \in OutputNames :
                Range(AppendedSeq(n)) \subseteq Range(listOfMovies))
    /\ [](\A n \in OutputNames : OutIds(n) \subseteq Range(inputMovies))

\* a pass appended the items of a new movie after the items a former pass
\* had appended
C28_Witness ==
    /\ pc = "gate"
    /\ doSaveAveMic
    /\ Len(hist.start[2]) >= 1
    /\ Len(hist.start[3]) >= 1
    /\ Len(movieSet) > Len(hist.start[2])
    /\ Len(micSet) > Len(hist.start[3])

\* C29: fan-out consistency. When the protocol writes both sets, after every
\* pass that ran to its end the movie set and the micrograph set hold items
\* for the same ids in the same order, have the same stream state, and
\* their ids are the ids of the done list.
C29_FanOutConsistent ==
    (pc = "idle" /\ hist.ended /\ doSaveAveMic) =>
        /\ IdsOf(movieSet) = IdsOf(micSet)
        /\ movieState = micState
        /\ Range(IdsOf(movieSet)) = Range(doneFile)

\* the elements of the input sets of the run, in the order of the loops
Flat == Flatten(union.inputSets)

\* the position of the first element whose id was met before, or
\* Len(Flat) + 1
FirstDup ==
    LET dups == {i \in 1 .. Len(Flat) : \E j \in 1 .. i - 1 : Flat[j] = Flat[i]}
    IN  IF dups = {} THEN Len(Flat) + 1
        ELSE CHOOSE i \in dups : \A k \in dups : i <= k

\* the output set has one element per element of the input sets; the
\* elements before the first duplicated id keep their id, that one and
\* every following one have their id cleared
KeptUntilDup ==
    /\ union.pc = "done"
    /\ Len(union.outputSet) = Len(Flat)
    /\ \A i \in 1 .. Len(Flat) :
          union.outputSet[i].objId = IF i < FirstDup THEN Flat[i] ELSE NoId

\* C30 as stated: createOutputStep makes an output set with as many
\* elements as the input sets hold together, whose ids are the original
\* ones until the first duplicated id and cleared from there on.
C30_UnionKeepsIds ==
    union.pc # "new" => KeptUntilDup

\* C30 amended: so it is when renumber is false; when renumber is true the
\* first element gets the largest id of the inputs plus one and every
\* following one has its id cleared.
C30_UnionKeepsIdsNoRenumber ==
    /\ (union.pc # "new" /\ ~union.renumber) => KeptUntilDup
    /\ (union.pc # "new" /\ union.renumber) =>
          /\ union.pc = "done"
          /\ Len(union.outputSet) = Len(Flat)
          /\ \A i \in 1 .. Len(Flat) :
                union.outputSet[i].objId =
                    IF i = 1 THEN MaxOf(Range(Flat)) + 1 ELSE NoId

\* without renumbering, an element with a new id that follows a duplicated
\* id had its id cleared
C30_Witness ==
    /\ union.pc = "done"
    /\ ~union.renumber
    /\ FirstDup < Len(Flat)
    /\ \A j \in 1 .. Len(Flat) - 1 : Flat[j] # Flat[Len(Flat)]
    /\ union.outputSet[Len(Flat)].objId = NoId
    /\ union.outputSet[1].objId = Flat[1]

\* the number of subsets that hold the element x
SplitHolders(x) ==
    Cardinality({k \in 1 .. Len(split.subsets) :
                    \E j \in 1 .. Len(split.subsets[k]) :
                        split.subsets[k][j] = x})

\* every input element is in exactly one subset, once; the sizes are those
\* of an even split whose first L mod n subsets have one element more; no
\* index beyond n - 1 was used
SplitPartition ==
    LET L == Len(split.inputSet)
        n == split.numberOfSets
    IN  /\ split.pc = "done"
        /\ Len(split.subsets) = n
        /\ \A x \in Range(split.inputSet) : SplitHolders(x) = 1
        /\ \A k \in 1 .. n :
              /\ Range(split.subsets[k]) \subseteq Range(split.inputSet)
              /\ Cardinality(Range(split.subsets[k])) = Len(split.subsets[k])
              /\ Len(split.subsets[k]) =
                    (L \div n) + (IF k - 1 < L % n THEN 1 ELSE 0)
        /\ \A k, m \in 1 .. n :
              Len(split.subsets[k]) - Len(split.subsets[m]) \in {-1, 0, 1}
        /\ split.addressed \subseteq 0 .. n - 1

\* C31: createOutputStep with n subsets over an input of size L >= n puts
\* every input element in exactly one subset, the sizes sum to L and differ
\* by at most one (the first L mod n subsets have one more), and no subset
\* index beyond n - 1 is addressed in the loop.
C31_SplitPartition ==
    (/\ split.pc \in {"done", "failed"}
     /\ Len(split.inputSet) >= split.numberOfSets) => SplitPartition

\* the positions of the list that hold a node with the given id
NodesWithId(nodeId) ==
    {i \in 1 .. Len(nodeList.items) : nodeList.items[i].id = nodeId}

\* C32: after any sequence of addNode and clear, getNode(id) gives a node
\* that is an element of the list and has that id, gives None exactly when
\* the list holds no node with that id, and the list never holds two nodes
\* with the same id.
C32_DictConsistent ==
    \A nodeId \in NodeIds :
        LET node == getNode(nodeList, nodeId)
        IN  /\ node # None =>
                  /\ node.id = nodeId
                  /\ \E i \in NodesWithId(nodeId) : nodeList.items[i] = node
            /\ node = None <=> NodesWithId(nodeId) = {}
            /\ Cardinality(NodesWithId(nodeId)) <= 1

====
